---- MODULE Spec2Model ----
(***************************************************************************)
(* A model of the Visionary audio pipeline: the PCM-to-WAV encoder         *)
(* (utils/audioUtils pcmToWav) and the audio graph kept by the Visualizer  *)
(* component (components/Visualizer.tsx).                                  *)
(*                                                                         *)
(* Numbers that may exceed 32 bits (the sample rate and its double) are    *)
(* kept as little-endian sequences of base-256 digits, so that the 32-bit  *)
(* stores of DataView.setUint32 keep their width.                          *)
(***************************************************************************)
EXTENDS Integers, Sequences, FiniteSets, TLC

VARIABLES
    base64,        \* pcmToWav: the base64 argument, a sequence of characters
    sampleRate,    \* pcmToWav: the sampleRate argument, base-256 digits
    wavOut,        \* pcmToWav: NoCall, Threw or the Blob returned
    mounted,       \* Visualizer: a component instance is mounted
    audioElement,  \* Visualizer: the audioElement prop of the last commit
    hasCleanup,    \* Visualizer: the last audio setup effect returned its cleanup
    graph,         \* Visualizer: the refs of the instance and the Web Audio graph
    lastOp,        \* what the last commit's audio setup effect did
    isPlaying,     \* Visualizer: the isPlaying prop of the last commit
    anim,          \* Visualizer: animationRef, the canvas and the frame callbacks
    ctxSuspended,  \* the browser holds the AudioContext in the suspended state
    status,        \* App: 'idle', 'processing', 'playing' or 'paused'
    statusText,    \* App: the text of the status badge
    errorMessage,  \* App: NullRef or the message of the error banner
    fileData,      \* App: NullRef or the selected file (mimeType goes with it)
    resultsMap,    \* App: the results, a sequence of entries in key order
    selectedLanguage, \* App: NullRef or the key of the selected tab
    audios,        \* the Audio objects created so far and their paused flag
    plays,         \* the play() promises of selectLanguage not yet settled
    runs,          \* the processWorkflow calls that await a remote call
    speech,        \* one apiGenerateSpeech call: withRetry, the remote call, pcmToWav
    bar,           \* render: the magnitude and the fill style of the last bar
    cachedApp      \* the cached-translation App: its state and its pending calls

wavVars == <<base64, sampleRate, wavOut>>

appVars == <<status, statusText, errorMessage, fileData, resultsMap,
             selectedLanguage, audios, plays, runs>>

unitVars == <<speech, bar, cachedApp>>

graphVars == <<mounted, audioElement, hasCleanup, graph, lastOp,
               isPlaying, anim, ctxSuspended>>

vars == <<base64, sampleRate, wavOut, mounted, audioElement, hasCleanup, graph,
          lastOp, isPlaying, anim, ctxSuspended, status, statusText,
          errorMessage, fileData, resultsMap, selectedLanguage, audios, plays,
          runs, speech, bar, cachedApp>>

(***************************************************************************)
(* Bounds of the model.                                                    *)
(***************************************************************************)
MaxB64Core == 7
MaxContexts == 2
MaxRafIds == 4

(***************************************************************************)
(* Numbers as little-endian base-256 digit sequences.                      *)
(***************************************************************************)
RECURSIVE NatDigits(_)
NatDigits(n) == IF n = 0 THEN <<>> ELSE <<n % 256>> \o NatDigits(n \div 256)

Digit(v, i) == IF i <= Len(v) THEN v[i] ELSE 0

RECURSIVE Times2Carry(_, _)
Times2Carry(v, carry) ==
    IF v = <<>>
    THEN (IF carry = 0 THEN <<>> ELSE <<carry>>)
    ELSE <<(2 * Head(v) + carry) % 256>>
         \o Times2Carry(Tail(v), (2 * Head(v) + carry) \div 256)

\* sampleRate * 2 on a JavaScript number (exact below 2^53)
Times2(v) == Times2Carry(v, 0)

\* the value fits in w bytes
FitsBytes(v, w) == \A i \in 1..Len(v) : i > w => v[i] = 0

\* ToUint32 / ToUint16 of DataView stores: the value modulo 2^(8w), as w digits
ToUintBytes(v, w) == [i \in 1..w |-> Digit(v, i)]

Reverse(s) == [i \in 1..Len(s) |-> s[Len(s) + 1 - i]]

(***************************************************************************)
(* window.atob: the forgiving-base64 decode of the HTML standard.          *)
(***************************************************************************)
B64Alphabet ==
    <<"A","B","C","D","E","F","G","H","I","J","K","L","M","N","O","P",
      "Q","R","S","T","U","V","W","X","Y","Z","a","b","c","d","e","f",
      "g","h","i","j","k","l","m","n","o","p","q","r","s","t","u","v",
      "w","x","y","z","0","1","2","3","4","5","6","7","8","9","+","/">>

IsB64Char(c) == \E i \in 1..Len(B64Alphabet) : B64Alphabet[i] = c

B64Value(c) == (CHOOSE i \in 1..Len(B64Alphabet) : B64Alphabet[i] = c) - 1

IsWhitespace(c) == c = " "

RECURSIVE StripWhitespace(_)
StripWhitespace(s) ==
    IF s = <<>> THEN <<>>
    ELSE IF IsWhitespace(Head(s)) THEN StripWhitespace(Tail(s))
    ELSE <<Head(s)>> \o StripWhitespace(Tail(s))

\* a length divisible by 4 loses one or two trailing "="
StripPadding(s) ==
    IF Len(s) > 0 /\ Len(s) % 4 = 0 /\ s[Len(s)] = "="
    THEN IF s[Len(s) - 1] = "="
         THEN SubSeq(s, 1, Len(s) - 2)
         ELSE SubSeq(s, 1, Len(s) - 1)
    ELSE s

RECURSIVE DecodeGroups(_)
DecodeGroups(s) ==
    IF Len(s) >= 4
    THEN LET n == B64Value(s[1]) * 262144 + B64Value(s[2]) * 4096
                  + B64Value(s[3]) * 64 + B64Value(s[4])
         IN  <<n \div 65536, (n \div 256) % 256, n % 256>>
             \o DecodeGroups(SubSeq(s, 5, Len(s)))
    ELSE IF Len(s) = 3
    THEN LET n == (B64Value(s[1]) * 4096 + B64Value(s[2]) * 64
                   + B64Value(s[3])) \div 4
         IN  <<n \div 256, n % 256>>
    ELSE IF Len(s) = 2
    THEN <<(B64Value(s[1]) * 64 + B64Value(s[2])) \div 16>>
    ELSE <<>>

\* the character codes of the binary string, or a thrown InvalidCharacterError
Atob(s) ==
    LET data == StripPadding(StripWhitespace(s))
    IN  IF Len(data) % 4 = 1 \/ \E i \in 1..Len(data) : ~IsB64Char(data[i])
        THEN [ok |-> FALSE, codes |-> <<>>]
        ELSE [ok |-> TRUE, codes |-> DecodeGroups(data)]

(***************************************************************************)
(* DataView stores on the 44-byte header (offsets count from 0).           *)
(***************************************************************************)
SetBytes(buf, offset, bytes) ==
    SubSeq(buf, 1, offset) \o bytes \o SubSeq(buf, offset + Len(bytes) + 1, Len(buf))

\* mutant: the littleEndian flag is ignored and every store is little-endian
setUint32IgnoresFlag(buf, offset, v, littleEndian) ==
    SetBytes(buf, offset, ToUintBytes(v, 4))

setUint32(buf, offset, v, littleEndian) ==
    SetBytes(buf, offset,
             IF littleEndian THEN ToUintBytes(v, 4) ELSE Reverse(ToUintBytes(v, 4)))

setUint16(buf, offset, v, littleEndian) ==
    SetBytes(buf, offset,
             IF littleEndian THEN ToUintBytes(v, 2) ELSE Reverse(ToUintBytes(v, 2)))

HeaderLen == 44

\* mutant: the character codes are cut to seven bits
PcmBufferSevenBit(codes) == [i \in 1..Len(codes) |-> codes[i] % 128]

\* pcmBuffer[i] = binaryString.charCodeAt(i), stored in a Uint8Array
PcmBuffer(codes) == [i \in 1..Len(codes) |-> codes[i] % 256]

\* mutant: the whole file's length instead of the length after the field
ChunkSizeWholeFile(byteLength) == NatDigits(44 + byteLength)

\* the ChunkSize field: 36 + pcmBuffer.byteLength
ChunkSize(byteLength) == NatDigits(36 + byteLength)

\* the ByteRate field: sampleRate * 2
ByteRate(rate) == Times2(rate)

\* mutant: the sample rate of the speech service written in place of the argument
SampleRateHardcoded(buf, rate) == setUint32(buf, 24, NatDigits(24000), TRUE)

\* the value and endianness of the store at offset 24
SampleRateField(buf, rate) == setUint32(buf, 24, rate, TRUE)

\* the store of the data sub-chunk size at offset 40
Subchunk2SizeField(buf, byteLength) == setUint32(buf, 40, NatDigits(byteLength), TRUE)

WavHeader(rate, byteLength) ==
    LET b0  == [i \in 1..HeaderLen |-> 0]
        b1  == setUint32(b0, 0, NatDigits(1380533830), FALSE)     \* 0x52494646
        b2  == setUint32(b1, 4, ChunkSize(byteLength), TRUE)
        b3  == setUint32(b2, 8, NatDigits(1463899717), FALSE)     \* 0x57415645
        b4  == setUint32(b3, 12, NatDigits(1718449184), FALSE)    \* 0x666d7420
        b5  == setUint32(b4, 16, NatDigits(16), TRUE)
        b6  == setUint16(b5, 20, NatDigits(1), TRUE)
        b7  == setUint16(b6, 22, NatDigits(1), TRUE)
        b8  == SampleRateField(b7, rate)
        b9  == setUint32(b8, 28, ByteRate(rate), TRUE)
        b10 == setUint16(b9, 32, NatDigits(2), TRUE)
        b11 == setUint16(b10, 34, NatDigits(16), TRUE)
        b12 == setUint32(b11, 36, NatDigits(1684108385), FALSE)   \* 0x64617461
    IN  Subchunk2SizeField(b12, byteLength)

\* mutant: the payload is left out of the blob
BlobHeaderOnly(parts, type) == [kind |-> "blob", type |-> type, bytes |-> parts[1]]

\* new Blob([wavHeader, pcmBuffer], { type: 'audio/wav' })
Blob(parts, type) == [kind |-> "blob", type |-> type, bytes |-> parts[1] \o parts[2]]

NoCall == [kind |-> "none"]
Threw == [kind |-> "threw"]

\* mutant: a decode failure is caught and a blob without samples returned
pcmToWavCatches(b64, rate) ==
    LET decoded == Atob(b64)
        pcmBuffer == IF decoded.ok THEN PcmBuffer(decoded.codes) ELSE <<>>
    IN  Blob(<<WavHeader(rate, Len(pcmBuffer)), pcmBuffer>>, "audio/wav")

pcmToWav(b64, rate) ==
    LET decoded == Atob(b64)
    IN  IF ~decoded.ok THEN Threw
        ELSE LET pcmBuffer == PcmBuffer(decoded.codes)
             IN  Blob(<<WavHeader(rate, Len(pcmBuffer)), pcmBuffer>>, "audio/wav")

(***************************************************************************)
(* The Visualizer's audio graph (components/Visualizer.tsx, effect 1).     *)
(*                                                                         *)
(* A MediaElementAudioSourceNode is named by the media element it was      *)
(* created for: an element gets at most one source node in its life, since *)
(* createMediaElementSource raises InvalidStateError for an element that   *)
(* already has one. An edge <<s, t>> goes from source s to the analyser or *)
(* the destination of the context that created s. connect() raises only    *)
(* for a node of another context, and the analyser and the destination     *)
(* the effect connects to are those of the context that made the source;   *)
(* disconnect() without arguments never raises.                            *)
(***************************************************************************)
Elements == {"E1", "E2", "E3"}

NullRef == "null"

FftSize == 256

\* analyserRef.current while it is null
NoAnalyser == [ctx |-> 0, fftSize |-> 0]

AnalyserSources(edges) == {s \in Elements : <<s, "analyser">> \in edges}

Max(a, b) == IF a >= b THEN a ELSE b

\* the refs of a fresh component instance; nodes, edges and the context count
\* belong to the page and outlive the instance; instCtx counts the contexts
\* the instance created
FreshRefs(g) ==
    [g EXCEPT !.audioCtx = 0, !.analyser = NoAnalyser, !.sourceRef = NullRef,
              !.instCtx = 0]

\* source.disconnect(): removes every outgoing edge of s
disconnect(g, s) == [g EXCEPT !.edges = {e \in g.edges : e[1] # s}]

\* source.connect(target); peak is the largest number of sources that were
\* connected to the analyser at any point of the commit
connect(g, s, target) ==
    LET edges == g.edges \cup {<<s, target>>}
    IN  [g EXCEPT !.edges = edges,
                  !.peak = Max(g.peak, Cardinality(AnalyserSources(edges)))]

\* new AudioContext(); createAnalyser(); fftSize = 256
NewAudioContext(g) ==
    [g EXCEPT !.ctxCount = g.ctxCount + 1,
              !.instCtx = g.instCtx + 1,
              !.audioCtx = g.ctxCount + 1,
              !.analyser = [ctx |-> g.ctxCount + 1, fftSize |-> FftSize]]

\* mutant: a context and an analyser are created on every run of the effect
InitAudioContextEveryTime(g) == NewAudioContext(g)

\* if (!audioCtxRef.current) { ... }
InitAudioContext(g) ==
    IF g.audioCtx = 0 THEN NewAudioContext(g) ELSE g

\* if (sourceRef.current) { try { sourceRef.current.disconnect(); } catch {} }
DisconnectOldSource(g) ==
    IF g.sourceRef # NullRef THEN disconnect(g, g.sourceRef) ELSE g

\* mutant: the source is connected to the analyser only
WireSourceAnalyserOnly(g, e) ==
    [connect(g, e, "analyser") EXCEPT !.sourceRef = e]

\* source.connect(analyser); source.connect(ctx.destination); sourceRef.current = source
WireSource(g, e) ==
    LET g1 == connect(g, e, "analyser")
        g2 == connect(g1, e, "destination")
    IN  [g2 EXCEPT !.sourceRef = e]

\* mutant: the exception leaves the effect
RethrowWiringError(g) == [g EXCEPT !.outcome = "threw", !.escaped = TRUE]

\* catch (e) { /* Reconnecting to same element can throw, usually fine */ }
CatchWiringError(g) == [g EXCEPT !.outcome = "threw"]

\* the try block: createMediaElementSource throws for an element that already
\* has a source node, and the catch swallows it
TryCreateSource(g, e) ==
    LET g1 == DisconnectOldSource(g)
    IN  IF g1.nodes[e] # 0
        THEN CatchWiringError(g1)
        ELSE [WireSource([g1 EXCEPT !.nodes[e] = g1.audioCtx], e)
                 EXCEPT !.outcome = "created"]

\* the body of the audio setup effect for audioElement e
AudioSetupEffect(g, e) ==
    IF e = NullRef
    THEN [g EXCEPT !.outcome = "none"]
    ELSE TryCreateSource(InitAudioContext(g), e)

\* mutant: the cleanup clears the reference and leaves the source connected
CleanupWithoutDisconnect(g) == [g EXCEPT !.sourceRef = NullRef]

\* mutant: the cleanup disconnects the source and keeps the reference
CleanupKeepsRef(g) ==
    IF g.sourceRef # NullRef THEN disconnect(g, g.sourceRef) ELSE g

\* mutant: the cleanup also drops the context and the analyser
CleanupDropsContext(g) ==
    IF g.sourceRef # NullRef
    THEN [disconnect(g, g.sourceRef) EXCEPT !.sourceRef = NullRef,
                                            !.audioCtx = 0,
                                            !.analyser = NoAnalyser]
    ELSE g

\* the cleanup the effect returned
AudioSetupCleanup(g) ==
    IF g.sourceRef # NullRef
    THEN [disconnect(g, g.sourceRef) EXCEPT !.sourceRef = NullRef]
    ELSE g

\* React runs the previous effect's cleanup, when it returned one, before
\* the effect of the new commit
RunCleanup(g, registered) ==
    IF registered THEN AudioSetupCleanup(g) ELSE g

StartCommit(g) == [g EXCEPT !.peak = Cardinality(AnalyserSources(g.edges))]

(***************************************************************************)
(* The animation loop (components/Visualizer.tsx, effect 2).               *)
(*                                                                         *)
(* requestAnimationFrame hands out increasing ids; a pending callback      *)
(* carries what its closure captured: the isPlaying of the effect run that *)
(* made it and the length of its dataArray. The effect runs after the      *)
(* canvas is in the document, so canvasRef.current is never null in it.    *)
(***************************************************************************)
CanvasWidth == 800

CanvasHeight == 200

Min(a, b) == IF a <= b THEN a ELSE b

\* analyser.frequencyBinCount: half the FFT size
frequencyBinCount(analyser) == analyser.fftSize \div 2

\* animationRef.current = requestAnimationFrame(render)
requestAnimationFrame(a, playing, bins) ==
    [a EXCEPT !.rafCount = a.rafCount + 1,
              !.pending = a.pending \cup
                  {[id |-> a.rafCount + 1, playing |-> playing, bins |-> bins]},
              !.animationRef = a.rafCount + 1]

\* mutant: the callback is left in the queue
cancelAnimationFrameNoop(a, id) == a

\* cancelAnimationFrame(id): an id that is not pending is ignored
cancelAnimationFrame(a, id) ==
    [a EXCEPT !.pending = {cb \in a.pending : cb.id # id}]

\* canvasCtx.clearRect(0, 0, canvas.width, canvas.height)
clearRect(a) ==
    [a EXCEPT !.canvas = [op |-> "clear", w |-> CanvasWidth, h |-> CanvasHeight]]

\* the bars of one frame: clearRect, then a fillRect for every bin
DrawBars(a, bins) ==
    [a EXCEPT !.canvas = [op |-> "bars", w |-> CanvasWidth, h |-> CanvasHeight],
              !.frameLen = bins,
              !.frames = Min(a.frames + 1, 2)]

\* mutant: the frame is drawn and no successor is requested
renderWithoutSuccessor(a, playing, bins) == DrawBars(a, bins)

\* render: one frame, and the next one requested if the closure's isPlaying
render(a, playing, bins) ==
    IF playing
    THEN requestAnimationFrame(DrawBars(a, bins), playing, bins)
    ELSE DrawBars(a, bins)

\* mutant: resume is called whatever the state of the context
ResumeAlways(a, suspended) ==
    [a EXCEPT !.startLog = Append(a.startLog, "resume")]

\* if (audioCtxRef.current?.state === 'suspended') audioCtxRef.current.resume()
ResumeIfSuspended(a, suspended) ==
    IF suspended THEN [a EXCEPT !.startLog = Append(a.startLog, "resume")] ELSE a

\* the isPlaying branch: resume, then the first frame
StartLoop(a, g, suspended) ==
    LET a1 == [a EXCEPT !.frames = 0, !.startLog = <<>>,
                        !.startSuspended = suspended]
        a2 == ResumeIfSuspended(a1, suspended)
        a3 == [a2 EXCEPT !.startLog = Append(a2.startLog, "render")]
    IN  render(a3, TRUE, frequencyBinCount(g.analyser))

\* mutant: the pending frame is cancelled and the canvas keeps its bars
StopLoopWithoutClear(a) ==
    IF a.animationRef # 0 THEN cancelAnimationFrame(a, a.animationRef) ELSE a

\* the else branch: cancel the pending frame, clear the canvas
StopLoop(a) ==
    clearRect(IF a.animationRef # 0
              THEN cancelAnimationFrame(a, a.animationRef)
              ELSE a)

\* the body of the animation effect; it returns its cleanup unless it left early
AnimationEffect(a, g, playing, suspended) ==
    IF g.analyser = NoAnalyser
    THEN [a EXCEPT !.cleanup = FALSE]
    ELSE [(IF playing THEN StartLoop(a, g, suspended) ELSE StopLoop(a))
             EXCEPT !.cleanup = TRUE]

\* mutant: the cleanup leaves the pending frame
AnimationCleanupNoCancel(a) == a

\* the cleanup the animation effect returned
AnimationCleanup(a) ==
    IF a.animationRef # 0 THEN cancelAnimationFrame(a, a.animationRef) ELSE a

RunAnimationCleanup(a) == IF a.cleanup THEN AnimationCleanup(a) ELSE a

\* the refs and the canvas of a fresh component instance; the frame callbacks
\* and the id counter belong to the page
FreshAnim(a) ==
    [a EXCEPT !.animationRef = 0, !.cleanup = FALSE,
              !.canvas = [op |-> "none", w |-> CanvasWidth, h |-> CanvasHeight],
              !.frames = 0, !.frameLen = 0, !.startLog = <<>>,
              !.startSuspended = FALSE]

GraphInit ==
    /\ mounted = TRUE
    /\ audioElement = NullRef
    /\ hasCleanup = FALSE
    /\ graph = [audioCtx |-> 0, analyser |-> NoAnalyser, sourceRef |-> NullRef,
                nodes |-> [e \in Elements |-> 0], edges |-> {},
                ctxCount |-> 0, instCtx |-> 0, peak |-> 0, outcome |-> "none",
                escaped |-> FALSE]
    /\ lastOp = [op |-> "mount", element |-> NullRef, wasBound |-> FALSE,
                 prev |-> NullRef]
    /\ isPlaying = FALSE
    /\ anim = [animationRef |-> 0, cleanup |-> FALSE, pending |-> {},
               rafCount |-> 0,
               canvas |-> [op |-> "none", w |-> CanvasWidth, h |-> CanvasHeight],
               frames |-> 0, frameLen |-> 0, startLog |-> <<>>,
               startSuspended |-> FALSE]
    /\ ctxSuspended = TRUE

\* no call of apiGenerateSpeech is under way
NoSpeech == [pc |-> "none"]

\* no bar was drawn
NoBar == [drawn |-> FALSE, v |-> 0, fillStyle |-> [r |-> 0, g |-> 0, b |-> 0]]

\* the names the model gives the calls of processWorkflow
\* the cached-translation App before it is used: its useState initial values,
\* no Audio object, no pending call
LANGUAGES == {"my", "en", "ja"}

CallNames == {"P1", "P2", "P3"}

NoPending(pc) == [pc |-> pc, lang |-> NullRef, audioElement |-> NullRef]

EmptyCache == [source |-> NullRef, sourceAudio |-> NullRef, translations |-> {}]

NoCachedApp ==
    [status |-> "idle", statusText |-> "Idle", errorMessage |-> NullRef,
     fileData |-> NullRef, cache |-> EmptyCache, targetLangCode |-> "en",
     audioElement |-> NullRef, isPlaying |-> FALSE,
     audios |-> [e \in Elements |-> [created |-> FALSE, paused |-> TRUE]],
     plays |-> {},
     calls |-> [n \in CallNames |-> NoPending("unused")]]

RunNames == {"R1", "R2"}

\* a call that has not started, or has returned
NoRun(pc) ==
    [cl |-> [audioElement |-> NullRef, status |-> "idle", statusText |-> "Idle"],
     pc |-> pc, newResults |-> <<>>, primaryKey |-> NullRef, at |-> 0]

\* the state of App after construction: the initial values of its useState
\* calls; no Audio object, promise or workflow exists yet
AppInit ==
    /\ status = "idle"
    /\ statusText = "Idle"
    /\ errorMessage = NullRef
    /\ fileData = NullRef
    /\ resultsMap = <<>>
    /\ selectedLanguage = NullRef
    /\ audios = [e \in Elements |-> [created |-> FALSE, paused |-> TRUE]]
    /\ plays = {}
    /\ runs = [r \in RunNames |-> NoRun("unused")]

\* one React commit of the mounted instance with the props e and p: the
\* cleanups of the effects whose dependency changed, then those effects, in
\* the order of their declaration. Playback starts only once the instance
\* has its analyser (App raises isPlaying with or after an audio element).
Commit(e, p) ==
    LET g0 == StartCommit(graph)
        g1 == IF e # audioElement THEN RunCleanup(g0, hasCleanup) ELSE g0
        a1 == IF p # isPlaying THEN RunAnimationCleanup(anim) ELSE anim
        g2 == IF e # audioElement THEN AudioSetupEffect(g1, e) ELSE g1
        a2 == IF p # isPlaying THEN AnimationEffect(a1, g2, p, ctxSuspended) ELSE a1
    IN  /\ mounted
        /\ (p /\ ~isPlaying) => (g2.analyser # NoAnalyser /\ anim.rafCount < MaxRafIds)
        /\ graph' = g2
        /\ anim' = a2
        /\ audioElement' = e
        /\ isPlaying' = p
        /\ hasCleanup' = IF e # audioElement THEN e # NullRef ELSE hasCleanup
        /\ lastOp' = [op |-> IF e # audioElement THEN "attach" ELSE "playback",
                      element |-> e,
                      wasBound |-> (e # audioElement /\ e # NullRef
                                    /\ graph.nodes[e] # 0),
                      prev |-> graph.sourceRef]
        /\ UNCHANGED <<mounted, ctxSuspended>>

\* the audioElement prop changes: cleanup of the old effect, then the effect
SetAudioElement(e) ==
    /\ e # audioElement
    /\ Commit(e, isPlaying)
    /\ UNCHANGED <<wavVars, appVars, unitVars>>

\* the isPlaying prop changes
SetPlaying(p) ==
    /\ p # isPlaying
    /\ Commit(audioElement, p)
    /\ UNCHANGED <<wavVars, appVars, unitVars>>

\* both props change in one commit
SetProps(e, p) ==
    /\ e # audioElement
    /\ p # isPlaying
    /\ Commit(e, p)
    /\ UNCHANGED <<wavVars, appVars, unitVars>>

\* the component unmounts: the cleanups run; graph keeps the refs the instance
\* had until another instance mounts
Unmount ==
    /\ mounted
    /\ graph' = [RunCleanup(StartCommit(graph), hasCleanup)
                    EXCEPT !.outcome = "none"]
    /\ anim' = RunAnimationCleanup(anim)
    /\ mounted' = FALSE
    /\ audioElement' = NullRef
    /\ isPlaying' = FALSE
    /\ hasCleanup' = FALSE
    /\ lastOp' = [op |-> "unmount", element |-> NullRef, wasBound |-> FALSE,
                  prev |-> graph.sourceRef]
    /\ UNCHANGED ctxSuspended
    /\ UNCHANGED <<wavVars, appVars, unitVars>>

\* a new instance mounts with the props e and p and runs both effects
Mount(e, p) ==
    LET g1 == AudioSetupEffect(FreshRefs(StartCommit(graph)), e)
    IN  /\ ~mounted
        /\ graph.ctxCount < MaxContexts
        /\ p => (e # NullRef /\ anim.rafCount < MaxRafIds)
        /\ graph' = g1
        /\ anim' = AnimationEffect(FreshAnim(anim), g1, p, ctxSuspended)
        /\ mounted' = TRUE
        /\ audioElement' = e
        /\ isPlaying' = p
        /\ hasCleanup' = (e # NullRef)
        /\ lastOp' = [op |-> "attach", element |-> e,
                      wasBound |-> (e # NullRef /\ graph.nodes[e] # 0),
                      prev |-> NullRef]
        /\ UNCHANGED ctxSuspended
        /\ UNCHANGED <<wavVars, appVars, unitVars>>

\* the browser runs a pending frame callback
FrameTick ==
    /\ anim.rafCount < MaxRafIds
    /\ \E cb \in anim.pending :
          anim' = render([anim EXCEPT !.pending = anim.pending \ {cb}],
                         cb.playing, cb.bins)
    /\ UNCHANGED <<mounted, audioElement, hasCleanup, graph, lastOp, isPlaying,
                   ctxSuspended>>
    /\ UNCHANGED <<wavVars, appVars, unitVars>>

\* the browser suspends the context (autoplay policy) or lets it run
ContextStateChange ==
    /\ graph.audioCtx # 0
    /\ ctxSuspended' = ~ctxSuspended
    /\ UNCHANGED <<mounted, audioElement, hasCleanup, graph, lastOp, isPlaying,
                   anim>>
    /\ UNCHANGED <<wavVars, appVars, unitVars>>

InitGraph ==
    /\ GraphInit
    /\ AppInit
    /\ speech = NoSpeech
    /\ bar = NoBar
    /\ cachedApp = NoCachedApp
    /\ base64 = <<>>
    /\ sampleRate = <<>>
    /\ wavOut = NoCall

NextGraph ==
    \/ \E e \in Elements \cup {NullRef} : SetAudioElement(e)
    \/ \E p \in BOOLEAN : SetPlaying(p)
    \/ \E e \in Elements \cup {NullRef}, p \in BOOLEAN : SetProps(e, p)
    \/ Unmount
    \/ \E e \in Elements \cup {NullRef}, p \in BOOLEAN : Mount(e, p)
    \/ FrameTick
    \/ ContextStateChange

SpecGraph == InitGraph /\ [][NextGraph]_vars

\* the browser runs a pending frame callback at its next display refresh
SpecGraphFair == SpecGraph /\ WF_vars(FrameTick)

(***************************************************************************)
(* App (src/App.tsx). A handler reads the state of the render that created *)
(* it and queues setState calls; React applies them in order and commits   *)
(* once, which runs the effects of the Visualizer App renders. The records *)
(* c below hold the state a handler is building: the eight useState values *)
(* of the source's names, the Audio objects and the pending play()         *)
(* promises.                                                               *)
(***************************************************************************)
Current ==
    [status |-> status, statusText |-> statusText,
     errorMessage |-> errorMessage, fileData |-> fileData,
     resultsMap |-> resultsMap, selectedLanguage |-> selectedLanguage,
     audioElement |-> audioElement, isPlaying |-> isPlaying,
     audios |-> audios, plays |-> plays]

\* what selectLanguage reads from the render that created it
Closure(c) ==
    [audioElement |-> c.audioElement, status |-> c.status,
     statusText |-> c.statusText]

\* detectedLanguage as apiAnalyzeAndDetect returns it ('unknown' by default)
DetectedLanguages == {"unknown", "en"}

\* the answers of apiAnalyzeAndDetect: primaryContent is never empty, en and
\* my tell whether translations.en and translations.my are non-empty; the
\* model takes the answers without a Burmese translation, which the code
\* handles as it handles the English one
Analyses ==
    {a \in [detectedLanguage : DetectedLanguages, en : BOOLEAN, my : BOOLEAN] :
        ~a.my}

NoItem == [key |-> NullRef, label |-> "", text |-> "", audioBlob |-> FALSE]

KeysOf(map) == {map[i].key : i \in 1..Len(map)}

IndexOf(map, key) == CHOOSE i \in 1..Len(map) : map[i].key = key

\* map[key]
Item(map, key) ==
    IF key \in KeysOf(map) THEN map[IndexOf(map, key)] ELSE NoItem

\* map[item.key] = item: a new key goes last, an old key keeps its place
Put(map, item) ==
    IF item.key \in KeysOf(map)
    THEN LET i == IndexOf(map, item.key)
         IN  SubSeq(map, 1, i - 1) \o <<item>> \o SubSeq(map, i + 1, Len(map))
    ELSE Append(map, item)

primaryKey(analysis) ==
    IF analysis.detectedLanguage = "unknown" THEN "main"
    ELSE analysis.detectedLanguage

\* newResults as processWorkflow builds it from the analysis
NewResults(analysis) ==
    LET r0 == <<[key |-> primaryKey(analysis), label |-> "(Source)",
                 text |-> "primaryContent", audioBlob |-> FALSE]>>
        r1 == IF analysis.en
              THEN Put(r0, [key |-> "en", label |-> "English (Translation)",
                            text |-> "translations.en", audioBlob |-> FALSE])
              ELSE r0
    IN  IF analysis.my
        THEN Put(r1, [key |-> "my", label |-> "Burmese (Translation)",
                      text |-> "translations.my", audioBlob |-> FALSE])
        ELSE r1

FreshElements(c) == {e \in Elements : ~c.audios[e].created}

\* the name the model gives the next Audio object
NewAudioName(c) ==
    IF FreshElements(c) = {} THEN NullRef
    ELSE CHOOSE e \in FreshElements(c) : TRUE

\* new Audio(url): the element starts paused
NewAudio(c, e) == [c EXCEPT !.audios[e] = [created |-> TRUE, paused |-> TRUE]]

\* audio.pause(): the element is paused and its pending play() promises
\* are rejected
pause(c, e) ==
    [c EXCEPT !.audios[e].paused = TRUE,
              !.plays = {[p EXCEPT !.outcome = IF p.el = e THEN "reject" ELSE @]
                            : p \in c.plays}]

\* audio.play() as the host answers it: allowed, the element leaves the
\* paused state; rejected, the element stays as it was
play(c, e, host) ==
    IF host = "allow" THEN [c EXCEPT !.audios[e].paused = FALSE] ELSE c

\* audio.play().then(...).catch(...): the callbacks run when the promise
\* settles
playThenCatch(c, e, host) ==
    [play(c, e, host) EXCEPT
        !.plays = @ \cup {[el |-> e,
                           outcome |-> IF host = "allow" THEN "resolve"
                                       ELSE "reject"]}]

\* selectLanguage(key, map) of the render whose state is cl
selectLanguage(c, key, map, cl, host) ==
    LET item == Item(map, key)
        c1 == [c EXCEPT !.selectedLanguage = key]
        c2 == IF cl.audioElement # NullRef
              THEN [pause(c1, cl.audioElement) EXCEPT !.audioElement = NullRef,
                                                      !.isPlaying = FALSE]
              ELSE c1
    IN  IF item # NoItem /\ item.audioBlob
        THEN LET e == NewAudioName(c2)
                 c3 == [NewAudio(c2, e) EXCEPT !.audioElement = e]
             IN  IF cl.status = "processing" \/ cl.statusText = "Ready"
                 THEN playThenCatch(c3, e, host)
                 ELSE c3
        ELSE [c2 EXCEPT !.audioElement = NullRef]

\* togglePlayback of the current render
togglePlayback(c, host) ==
    LET item == IF c.selectedLanguage # NullRef
                THEN Item(c.resultsMap, c.selectedLanguage) ELSE NoItem
    IN  IF c.audioElement = NullRef
        THEN IF item # NoItem /\ item.audioBlob
             THEN LET e == NewAudioName(c)
                  IN  [play(NewAudio(c, e), e, host) EXCEPT
                          !.audioElement = e,
                          !.isPlaying = TRUE,
                          !.status = "playing",
                          !.statusText = "Speaking..."]
             ELSE c
        ELSE IF c.audios[c.audioElement].paused
             THEN [play(c, c.audioElement, host) EXCEPT
                      !.isPlaying = TRUE,
                      !.status = "playing",
                      !.statusText = "Speaking..."]
             ELSE [pause(c, c.audioElement) EXCEPT
                      !.isPlaying = FALSE,
                      !.status = "paused",
                      !.statusText = "Paused"]

\* mutant: the element is paused and stays the current audio element
handleClearKeepsElement(c) ==
    LET c1 == IF c.audioElement # NullRef THEN pause(c, c.audioElement) ELSE c
    IN  [c1 EXCEPT !.isPlaying = FALSE,
                   !.fileData = NullRef,
                   !.resultsMap = <<>>,
                   !.selectedLanguage = NullRef,
                   !.status = "idle",
                   !.statusText = "Idle",
                   !.errorMessage = NullRef]

handleClear(c) ==
    LET c1 == IF c.audioElement # NullRef
              THEN [pause(c, c.audioElement) EXCEPT !.audioElement = NullRef]
              ELSE c
    IN  [c1 EXCEPT !.isPlaying = FALSE,
                   !.fileData = NullRef,
                   !.resultsMap = <<>>,
                   !.selectedLanguage = NullRef,
                   !.status = "idle",
                   !.statusText = "Idle",
                   !.errorMessage = NullRef]

handleFileSelect(c) == [handleClear(c) EXCEPT !.fileData = "file"]

\* the onended handler of an Audio object
onended(c) ==
    [c EXCEPT !.isPlaying = FALSE, !.status = "idle", !.statusText = "Finished"]

\* the first entry at or after place k that has text, 0 when there is none
NextSpoken(newResults, k) ==
    LET S == {i \in k..Len(newResults) : newResults[i].text # ""}
    IN  IF S = {} THEN 0 ELSE CHOOSE i \in S : \A j \in S : i <= j

\* the end of processWorkflow's try block
Finish(c, r, host) ==
    LET c1 == [c EXCEPT !.selectedLanguage = r.primaryKey]
        c2 == selectLanguage(c1, r.primaryKey, r.newResults, r.cl, host)
    IN  [c2 EXCEPT !.status = "idle", !.statusText = "Ready"]

\* the speech loop of the run r from place k up to its next await, or to the
\* end of the workflow: the state and what is left of the run
SpeechLoop(c, r, k, host) ==
    LET n == NextSpoken(r.newResults, k)
    IN  IF n # 0
        THEN [c |-> [c EXCEPT !.statusText = "Generating audio..."],
              run |-> [r EXCEPT !.pc = "speech", !.at = n]]
        ELSE [c |-> Finish(c, r, host), run |-> NoRun("done")]

\* the catch block of processWorkflow
WorkflowError(c) ==
    [c EXCEPT !.status = "idle", !.statusText = "Error",
              !.errorMessage = "error.message"]

\* selectLanguage(key, map) would create an Audio object
Creates(map, key) == Item(map, key) # NoItem /\ Item(map, key).audioBlob

\* the model has a name left for the Audio object the handler creates
CanCreate(creates) == creates => FreshElements(Current) # {}

\* the calls of processWorkflow that have not returned: each may still
\* create an Audio object, and the model keeps a name for it
RunsToFinish == {r \in RunNames : runs[r].pc # "done"}

NamesLeft == Cardinality(FreshElements(Current))

\* the commit that follows a handler: the Visualizer's effects run when one
\* of its two props changed
Render(e, p) ==
    IF e = audioElement /\ p = isPlaying
    THEN UNCHANGED graphVars
    ELSE Commit(e, p)

Apply(c2) ==
    /\ status' = c2.status
    /\ statusText' = c2.statusText
    /\ errorMessage' = c2.errorMessage
    /\ fileData' = c2.fileData
    /\ resultsMap' = c2.resultsMap
    /\ selectedLanguage' = c2.selectedLanguage
    /\ audios' = c2.audios
    /\ plays' = c2.plays
    /\ Render(c2.audioElement, c2.isPlaying)
    /\ UNCHANGED <<wavVars, unitVars>>

\* the user clears the selected file (the button shows when a file is there)
HandleClear ==
    /\ fileData # NullRef
    /\ Apply(handleClear(Current))
    /\ UNCHANGED runs

\* the user selects or captures a file
HandleFileSelect ==
    /\ Apply(handleFileSelect(Current))
    /\ UNCHANGED runs

\* the user presses Analyze (disabled while processing or without a file):
\* processWorkflow up to its first await
ProcessWorkflow ==
    /\ fileData # NullRef
    /\ status # "processing"
    /\ \E r \in RunNames : runs[r].pc = "unused"
    /\ Apply([Current EXCEPT !.status = "processing",
                             !.statusText = "Analyzing content...",
                             !.resultsMap = <<>>,
                             !.errorMessage = NullRef])
    /\ LET r == CHOOSE r \in RunNames : runs[r].pc = "unused"
       IN  runs' = [runs EXCEPT ![r] = [NoRun("analysis") EXCEPT
                                          !.cl = Closure(Current)]]

\* apiAnalyzeAndDetect resolves: the results are built and shown, and the
\* run goes on to its next await
AnalysisDone(i, analysis, host) ==
    /\ runs[i].pc = "analysis"
    /\ LET r == [runs[i] EXCEPT !.newResults = NewResults(analysis),
                                !.primaryKey = primaryKey(analysis)]
           c1 == [Current EXCEPT !.resultsMap = r.newResults]
           next == SpeechLoop(c1, r, 1, host)
       IN  /\ Apply(next.c)
           /\ runs' = [runs EXCEPT ![i] = next.run]

\* apiAnalyzeAndDetect rejects: the catch block ends the run
AnalysisFailed(i) ==
    /\ runs[i].pc = "analysis"
    /\ Apply(WorkflowError(Current))
    /\ runs' = [runs EXCEPT ![i] = NoRun("done")]

\* mutant: a speech failure ends the run in the catch block of the workflow
SpeechDoneAborts(i, ok, host) ==
    /\ runs[i].pc = "speech"
    /\ LET r0 == runs[i]
           r == IF ok THEN [r0 EXCEPT !.newResults[r0.at].audioBlob = TRUE]
                ELSE r0
           c1 == IF ok THEN [Current EXCEPT !.resultsMap = r.newResults]
                 ELSE Current
       IN  /\ CanCreate(/\ NextSpoken(r.newResults, r.at + 1) = 0
                        /\ Creates(r.newResults, r.primaryKey))
           /\ IF ok
              THEN LET next == SpeechLoop(c1, r, r.at + 1, host)
                   IN  /\ Apply(next.c)
                       /\ runs' = [runs EXCEPT ![i] = next.run]
              ELSE /\ Apply(WorkflowError(c1))
                   /\ runs' = [runs EXCEPT ![i] = NoRun("done")]

\* apiGenerateSpeech settles for the entry at r.at: the blob is stored and
\* shown, or the failure is logged; then the loop goes on, to the next await
\* or to the end of the workflow
SpeechDone(i, ok, host) ==
    /\ runs[i].pc = "speech"
    /\ LET r0 == runs[i]
           r == IF ok THEN [r0 EXCEPT !.newResults[r0.at].audioBlob = TRUE]
                ELSE r0
           c1 == IF ok THEN [Current EXCEPT !.resultsMap = r.newResults]
                 ELSE Current
       IN  /\ CanCreate(/\ NextSpoken(r.newResults, r.at + 1) = 0
                        /\ Creates(r.newResults, r.primaryKey))
           /\ LET next == SpeechLoop(c1, r, r.at + 1, host)
              IN  /\ Apply(next.c)
                  /\ runs' = [runs EXCEPT ![i] = next.run]

\* the user picks another entry of the language select, which shows while
\* the selected language has a result
SelectLanguage(key, host) ==
    /\ selectedLanguage # NullRef
    /\ Item(resultsMap, selectedLanguage) # NoItem
    /\ key \in KeysOf(resultsMap)
    /\ key # selectedLanguage
    /\ CanCreate(Creates(resultsMap, key))
    /\ Creates(resultsMap, key) => NamesLeft > Cardinality(RunsToFinish)
    /\ Apply(selectLanguage(Current, key, resultsMap, Closure(Current), host))
    /\ UNCHANGED runs

\* the user presses the play button, which shows while there is an element
TogglePlayback(host) ==
    /\ audioElement # NullRef
    /\ Apply(togglePlayback(Current, host))
    /\ UNCHANGED runs

\* a play() promise of selectLanguage settles: then() raises the playing
\* state, catch() logs
PlaySettled(p) ==
    /\ p \in plays
    /\ LET c1 == [Current EXCEPT !.plays = @ \ {p}]
       IN  IF p.outcome = "resolve"
           THEN Apply([c1 EXCEPT !.isPlaying = TRUE,
                                 !.status = "playing",
                                 !.statusText = "Speaking..."])
           ELSE Apply(c1)
    /\ UNCHANGED runs

\* an element that plays reaches its end: the browser pauses it and fires
\* ended
AudioEnded(e) ==
    /\ audios[e].created
    /\ ~audios[e].paused
    /\ \A p \in plays : p.el # e
    /\ Apply(onended([Current EXCEPT !.audios[e].paused = TRUE]))
    /\ UNCHANGED runs

\* the user closes the error banner
CloseError ==
    /\ errorMessage # NullRef
    /\ Apply([Current EXCEPT !.errorMessage = NullRef])
    /\ UNCHANGED runs

Hosts == {"allow", "reject"}

InitApp ==
    /\ GraphInit
    /\ AppInit
    /\ speech = NoSpeech
    /\ bar = NoBar
    /\ cachedApp = NoCachedApp
    /\ base64 = <<>>
    /\ sampleRate = <<>>
    /\ wavOut = NoCall

NextApp ==
    \/ HandleClear
    \/ HandleFileSelect
    \/ ProcessWorkflow
    \/ \E i \in RunNames, analysis \in Analyses, host \in Hosts :
          AnalysisDone(i, analysis, host)
    \/ \E i \in RunNames : AnalysisFailed(i)
    \/ \E i \in RunNames, ok \in BOOLEAN, host \in Hosts :
          SpeechDone(i, ok, host)
    \/ \E key \in KeysOf(resultsMap), host \in Hosts : SelectLanguage(key, host)
    \/ \E host \in Hosts : TogglePlayback(host)
    \/ \E p \in plays : PlaySettled(p)
    \/ \E e \in Elements : AudioEnded(e)
    \/ CloseError
    \/ FrameTick

SpecApp == InitApp /\ [][NextApp]_vars

(***************************************************************************)
(* The encoder's specification: the arguments are drawn from bounded sets  *)
(* and the call applies pcmToWav to them.                                  *)
(***************************************************************************)
CoreChars == {"A", "/"}

RECURSIVE SeqsUpTo(_, _)
SeqsUpTo(S, n) ==
    IF n = 0 THEN {<<>>}
    ELSE LET shorter == SeqsUpTo(S, n - 1)
         IN  shorter \cup {Append(s, c) : s \in {t \in shorter : Len(t) = n - 1}, c \in S}

\* strings of alphabet characters, and each of them with padding, whitespace,
\* a character outside the alphabet or a misplaced "=" added
Base64Inputs ==
    LET core == SeqsUpTo(CoreChars, MaxB64Core)
    IN  core
        \cup {s \o <<"=">> : s \in core}
        \cup {s \o <<"=", "=">> : s \in core}
        \cup {<<" ">> \o s : s \in core}
        \cup {s \o <<" ">> : s \in core}
        \cup {s \o <<"!">> : s \in core}
        \cup {<<"=">> \o s : s \in core}

\* positive integer sample rates: 1, 8000, 24000 (the rate the speech service
\* uses), 2^31 - 1, 2^31, 2^32 - 1 and 2^32 + 24000
SampleRates ==
    { NatDigits(1), NatDigits(8000), NatDigits(24000), NatDigits(2147483647),
      Times2(NatDigits(1073741824)), <<255, 255, 255, 255>>, <<192, 93, 0, 0, 1>> }

InitWav ==
    /\ base64 \in Base64Inputs
    /\ sampleRate \in SampleRates
    /\ wavOut = NoCall
    /\ GraphInit
    /\ AppInit
    /\ speech = NoSpeech
    /\ bar = NoBar
    /\ cachedApp = NoCachedApp

CallPcmToWav ==
    /\ wavOut = NoCall
    /\ wavOut' = pcmToWav(base64, sampleRate)
    /\ UNCHANGED <<base64, sampleRate>>
    /\ UNCHANGED <<graphVars, appVars, unitVars>>

NextWav == CallPcmToWav

SpecWav == InitWav /\ [][NextWav]_vars

(***************************************************************************)
(* Reading a container back, as a WAV reader does.                         *)
(***************************************************************************)
(* One speech request (src/services/geminiService.ts): the body of the     *)
(* speech loop of processWorkflow for one entry, or a direct call of       *)
(* apiGenerateSpeech; withRetry around the remote call and pcmToWav.       *)
(* A message is the sequence of its words.                                 *)
(***************************************************************************)
MAX_RETRIES == 2

INITIAL_BACKOFF == 1000

\* message.includes(word)
Includes(message, word) == \E i \in 1..Len(message) : message[i] = word

\* error?.status || error?.response?.status is 0 when neither is there
isRetryable(error) ==
    \/ error.status = 429
    \/ error.status = 503
    \/ Includes(error.message, "429")
    \/ Includes(error.message, "quota")
    \/ Includes(error.message, "overloaded")

\* text.trim()
RECURSIVE TrimStart(_)
TrimStart(t) ==
    IF t # <<>> /\ IsWhitespace(Head(t)) THEN TrimStart(Tail(t)) ELSE t

trim(t) == Reverse(TrimStart(Reverse(TrimStart(t))))

EmptyTextError ==
    [status |-> 0,
     message |-> <<"Cannot", "generate", "speech:", "input", "text", "is",
                   "empty.">>]

NoDataError ==
    [status |-> 0,
     message |-> <<"Audio", "generation", "failed.", "Reason:", "OTHER">>]

\* the DOMException of window.atob
DecodeError ==
    [status |-> 0, message |-> <<"InvalidCharacterError">>]

\* the errors the remote call rejects with
RemoteErrors ==
    [status : {0, 429, 500, 503},
     message : {<<>>, <<"got", "429">>, <<"quota", "exceeded">>,
                <<"model", "overloaded">>, <<"internal", "error">>}]

\* inlineData.data of the responses: none, PCM in base64, malformed base64
PcmBase64s ==
    { <<>>, <<"A", "A", "A", "A">>, <<"A", "/", "A", "=">>, <<"A">>,
      <<"A", "*", "A", "A">> }

\* item.text of the entry, or the argument of a direct call
Texts == { <<>>, <<" ">>, <<" ", " ">>, <<"a">>, <<" ", "a", " ">> }

\* the TTS sample rate apiGenerateSpeech passes to pcmToWav
TtsSampleRate == NatDigits(24000)

NoError == [status |-> 0, message |-> <<>>]

\* the call settled: the promise of apiGenerateSpeech is fulfilled with a
\* blob or rejected with an error; the loop of processWorkflow stores the
\* blob or logs the error and leaves audioBlob as it was
Fulfil(s, blob) ==
    [s EXCEPT !.pc = "done", !.result = "returned", !.audioBlob = blob]

Reject(s, error) ==
    [s EXCEPT !.pc = "done", !.result = "threw", !.error = error]

\* mutant: a retryable error makes the operation run again at once, without
\* counting the attempt
withRetryCatchBusy(s, error) ==
    IF isRetryable(error) THEN [s EXCEPT !.error = error] ELSE Reject(s, error)

\* mutant: every error is retried while attempts are left
withRetryCatchRetriesAll(s, error) ==
    IF s.retries > 0
    THEN [s EXCEPT !.pc = "waiting", !.error = error,
                   !.waits = Append(@, s.delay)]
    ELSE Reject(s, error)

\* the catch block of withRetry: wait and retry, or rethrow
withRetryCatch(s, error) ==
    IF isRetryable(error) /\ s.retries > 0
    THEN [s EXCEPT !.pc = "waiting", !.error = error,
                   !.waits = Append(@, s.delay)]
    ELSE Reject(s, error)

\* the timer of withRetry fired: withRetry(operation, retries - 1, delay * 2)
\* invokes the operation again
withRetryAgain(s) ==
    [s EXCEPT !.pc = "calling", !.retries = @ - 1, !.delay = @ * 2,
              !.calls = @ + 1]

\* the operation after its remote call resolved with data: pcmToWav, whose
\* failure is thrown into withRetry
operationResolved(s, data) ==
    IF data = <<>>
    THEN withRetryCatch(s, NoDataError)
    ELSE LET wav == pcmToWav(data, TtsSampleRate)
         IN  IF wav = Threw
             THEN withRetryCatch([s EXCEPT !.wav = wav], DecodeError)
             ELSE Fulfil([s EXCEPT !.wav = wav], wav)

\* mutant: the guard tests the text without trimming it
apiGenerateSpeechNoTrim(s) ==
    IF s.text = <<>>
    THEN Reject(s, EmptyTextError)
    ELSE [s EXCEPT !.pc = "calling", !.calls = 1]

\* apiGenerateSpeech(text) up to the await of the remote call
apiGenerateSpeech(s) ==
    IF s.text = <<>> \/ Len(trim(s.text)) = 0
    THEN Reject(s, EmptyTextError)
    ELSE [s EXCEPT !.pc = "calling", !.calls = 1]

\* the body of the speech loop for the entry: skipped without text
speechLoopBody(s) ==
    IF s.text = <<>> THEN [s EXCEPT !.pc = "skipped"] ELSE apiGenerateSpeech(s)

SpeechInit ==
    speech \in [via : {"processWorkflow", "apiGenerateSpeech"},
                text : Texts,
                pc : {"start"},
                retries : {MAX_RETRIES},
                delay : {INITIAL_BACKOFF},
                calls : {0},
                waits : {<<>>},
                data : {<<>>},
                wav : {NoCall},
                error : {NoError},
                result : {"none"},
                audioBlob : {NullRef}]

\* the loop reaches the entry, or the caller calls apiGenerateSpeech
StartSpeech ==
    /\ speech.pc = "start"
    /\ speech' = IF speech.via = "processWorkflow"
                 THEN speechLoopBody(speech)
                 ELSE apiGenerateSpeech(speech)
    /\ UNCHANGED <<wavVars, graphVars, appVars, bar, cachedApp>>

\* the remote call resolves with a response
RemoteResolves(data) ==
    /\ speech.pc = "calling"
    /\ speech' = operationResolved([speech EXCEPT !.data = data], data)
    /\ UNCHANGED <<wavVars, graphVars, appVars, bar, cachedApp>>

\* the remote call rejects
RemoteRejects(error) ==
    /\ speech.pc = "calling"
    /\ speech' = withRetryCatch(speech, error)
    /\ UNCHANGED <<wavVars, graphVars, appVars, bar, cachedApp>>

\* the backoff timer fires
TimerFires ==
    /\ speech.pc = "waiting"
    /\ speech' = withRetryAgain(speech)
    /\ UNCHANGED <<wavVars, graphVars, appVars, bar, cachedApp>>

\* the remote call completes, one way or the other
RemoteSettles ==
    \/ \E data \in PcmBase64s : RemoteResolves(data)
    \/ \E error \in RemoteErrors : RemoteRejects(error)

InitSpeech ==
    /\ SpeechInit
    /\ bar = NoBar
    /\ cachedApp = NoCachedApp
    /\ GraphInit
    /\ AppInit
    /\ base64 = <<>>
    /\ sampleRate = <<>>
    /\ wavOut = NoCall

NextSpeech ==
    \/ StartSpeech
    \/ RemoteSettles
    \/ TimerFires

SpecSpeech == InitSpeech /\ [][NextSpeech]_vars

\* every remote call settles and every timer fires
SpecSpeechFair ==
    /\ SpecSpeech
    /\ WF_vars(StartSpeech)
    /\ WF_vars(RemoteSettles)
    /\ WF_vars(TimerFires)

(***************************************************************************)
(* The bars of one frame (components/Visualizer.tsx, render): a bin of the *)
(* Uint8Array holds a magnitude 0..255, and the bar's fill style is the    *)
(* colour rgb(100 + magnitude, 92, 246).                                   *)
(***************************************************************************)
Magnitudes == 0..255

\* mutant: the red channel is clamped to the valid range
fillStyleClamped(v) == [r |-> Min(100 + v, 255), g |-> 92, b |-> 246]

\* canvasCtx.fillStyle = `rgb(${100 + dataArray[i]}, 92, 246)`
fillStyle(v) == [r |-> 100 + v, g |-> 92, b |-> 246]

\* render draws the bar of a bin with the magnitude v
DrawBar(v) ==
    /\ bar' = [drawn |-> TRUE, v |-> v, fillStyle |-> fillStyle(v)]
    /\ UNCHANGED <<wavVars, graphVars, appVars, speech, cachedApp>>

InitBars ==
    /\ bar = NoBar
    /\ cachedApp = NoCachedApp
    /\ speech = NoSpeech
    /\ GraphInit
    /\ AppInit
    /\ base64 = <<>>
    /\ sampleRate = <<>>
    /\ wavOut = NoCall

NextBars == \E v \in Magnitudes : DrawBar(v)

SpecBars == InitBars /\ [][NextBars]_vars

(***************************************************************************)
(* The cached-translation App: the source analysis of an image and its     *)
(* translations are kept in cache, a target language is picked from a      *)
(* select, and every audio blob is played through playAudioBlob.  The      *)
(* state is one record, cachedApp, with the source's names; calls holds    *)
(* the calls of performSourceAnalysis and handleTranslation that await a   *)
(* remote call (lang is the detected language or the target language,      *)
(* audioElement the element of the render that started the call).  A       *)
(* cached translation always has text and an audio blob, so translations   *)
(* is the set of its keys; cache.source is held as its detectedLanguage.   *)
(***************************************************************************)
\* detectedLanguage as apiAnalyzeSource returns it: a code of LANGUAGES or not
DetectedCodes == {"en", "other"}

\* playAudioBlob(blob) of the render that held the element `held`
playAudioBlob(c, held, blob, host) ==
    LET c1 == IF held # NullRef
              THEN [pause(c, held) EXCEPT !.audioElement = NullRef,
                                          !.isPlaying = FALSE]
              ELSE c
    IN  IF blob # NullRef
        THEN LET e == NewAudioName(c1)
             IN  playThenCatch([NewAudio(c1, e) EXCEPT !.audioElement = e],
                               e, host)
        ELSE c1

\* handleClear of the cached-translation App
clearCached(c) ==
    LET c1 == IF c.audioElement # NullRef
              THEN [pause(c, c.audioElement) EXCEPT !.audioElement = NullRef]
              ELSE c
    IN  [c1 EXCEPT !.isPlaying = FALSE,
                   !.fileData = NullRef,
                   !.cache = EmptyCache,
                   !.status = "idle",
                   !.statusText = "Idle",
                   !.errorMessage = NullRef]

\* getDisplayData(): NullRef, the source entry, a cached translation or the
\* placeholder
getDisplayData(c) ==
    IF c.cache.source = NullRef THEN NullRef
    ELSE IF c.cache.source = c.targetLangCode
         THEN [label |-> "(Original)", text |-> "sourceText",
               isAudioReady |-> c.cache.sourceAudio # NullRef]
         ELSE IF c.targetLangCode \in c.cache.translations
              THEN [label |-> "(Translation)", text |-> "translatedText",
                    isAudioReady |-> TRUE]
              ELSE [label |-> "Translating to ...", text |-> "...",
                    isAudioReady |-> FALSE]

\* the user clears the selected file
HandleClearCached ==
    /\ cachedApp.fileData # NullRef
    /\ cachedApp' = clearCached(cachedApp)
    /\ UNCHANGED <<wavVars, graphVars, appVars, speech, bar>>

\* the user selects or captures a file
HandleFileSelectCached ==
    /\ cachedApp' = [clearCached(cachedApp) EXCEPT !.fileData = "file"]
    /\ UNCHANGED <<wavVars, graphVars, appVars, speech, bar>>

\* the user presses Analyze, which shows while there is a file and no source
\* and is disabled while processing: performSourceAnalysis up to its first
\* await (the cached branch needs a source, which this render does not have)
PerformSourceAnalysis ==
    /\ cachedApp.fileData # NullRef
    /\ cachedApp.cache.source = NullRef
    /\ cachedApp.status # "processing"
    /\ \E n \in CallNames : cachedApp.calls[n].pc = "unused"
    /\ LET n == CHOOSE n \in CallNames : cachedApp.calls[n].pc = "unused"
       IN  cachedApp' =
              [cachedApp EXCEPT
                  !.errorMessage = NullRef,
                  !.status = "processing",
                  !.statusText = "Analyzing visual content...",
                  !.calls[n] = [pc |-> "apiAnalyzeSource", lang |-> NullRef,
                                audioElement |-> cachedApp.audioElement]]
    /\ UNCHANGED <<wavVars, graphVars, appVars, speech, bar>>

\* the user picks newLangCode in the language select, which shows while there
\* is a source and is disabled while processing: handleTranslation up to its
\* return or its first await
HandleTranslation(newLangCode, host) ==
    LET c == cachedApp
        c1 == [c EXCEPT !.targetLangCode = newLangCode]
        remote == /\ newLangCode # c.cache.source
                  /\ newLangCode \notin c.cache.translations
    IN  /\ c.cache.source # NullRef
        /\ c.status # "processing"
        /\ newLangCode \in LANGUAGES \cup {c.cache.source}
        /\ newLangCode # c.targetLangCode
        /\ IF remote
           THEN /\ \E n \in CallNames : c.calls[n].pc = "unused"
                /\ LET n == CHOOSE n \in CallNames : c.calls[n].pc = "unused"
                   IN  cachedApp' =
                          [c1 EXCEPT
                              !.errorMessage = NullRef,
                              !.status = "processing",
                              !.statusText = "Translating to ...",
                              !.calls[n] = [pc |-> "apiTranslate",
                                            lang |-> newLangCode,
                                            audioElement |-> c.audioElement]]
           ELSE /\ FreshElements(c) # {}
                /\ cachedApp' =
                      playAudioBlob(c1, c.audioElement,
                          IF newLangCode = c.cache.source
                          THEN c.cache.sourceAudio ELSE "blob", host)
        /\ UNCHANGED <<wavVars, graphVars, appVars, speech, bar>>

\* apiAnalyzeSource or apiTranslate resolves: the call goes on to
\* apiGenerateSpeech
TextResolves(n, detected) ==
    /\ cachedApp.calls[n].pc \in {"apiAnalyzeSource", "apiTranslate"}
    /\ cachedApp' =
          IF cachedApp.calls[n].pc = "apiAnalyzeSource"
          THEN [cachedApp EXCEPT !.statusText = "Generating audio ...",
                                 !.calls[n].pc = "sourceSpeech",
                                 !.calls[n].lang = detected]
          ELSE [cachedApp EXCEPT !.statusText = "Generating audio ...",
                                 !.calls[n].pc = "translatedSpeech"]
    /\ UNCHANGED <<wavVars, graphVars, appVars, speech, bar>>

\* apiGenerateSpeech resolves: the result is saved to the cache with a
\* functional update, the status is set to idle and 'Ready', and the blob is
\* played by the playAudioBlob of the render that started the call
SpeechResolves(n, host) ==
    LET c == cachedApp
        call == c.calls[n]
        c1 == IF call.pc = "sourceSpeech"
              THEN [c EXCEPT !.cache.source = call.lang,
                             !.cache.sourceAudio = "blob",
                             !.targetLangCode = call.lang]
              ELSE [c EXCEPT !.cache.translations = @ \cup {call.lang}]
        c2 == [c1 EXCEPT !.status = "idle", !.statusText = "Ready",
                         !.calls[n] = NoPending("done")]
    IN  /\ call.pc \in {"sourceSpeech", "translatedSpeech"}
        /\ FreshElements(c) # {}
        /\ cachedApp' = playAudioBlob(c2, call.audioElement, "blob", host)
        /\ UNCHANGED <<wavVars, graphVars, appVars, speech, bar>>

\* the remote call a pending call awaits rejects: its catch block
RemoteRejectsCached(n) ==
    /\ cachedApp.calls[n].pc \notin {"unused", "done"}
    /\ cachedApp' = [cachedApp EXCEPT !.status = "idle",
                                      !.statusText = "Error",
                                      !.errorMessage = "error.message",
                                      !.calls[n] = NoPending("done")]
    /\ UNCHANGED <<wavVars, graphVars, appVars, speech, bar>>

\* the user presses the play button, which shows while there is an element:
\* togglePlayback
TogglePlaybackCached(host) ==
    LET c == cachedApp
    IN  /\ c.audioElement # NullRef
        /\ cachedApp' =
              IF c.audios[c.audioElement].paused
              THEN [play(c, c.audioElement, host) EXCEPT
                       !.isPlaying = TRUE,
                       !.status = "playing",
                       !.statusText = "Speaking..."]
              ELSE [pause(c, c.audioElement) EXCEPT
                       !.isPlaying = FALSE,
                       !.status = "paused",
                       !.statusText = "Paused"]
        /\ UNCHANGED <<wavVars, graphVars, appVars, speech, bar>>

\* a play() promise of playAudioBlob settles: then() raises the playing
\* state, catch() logs
PlaySettledCached(p) ==
    /\ p \in cachedApp.plays
    /\ cachedApp' =
          IF p.outcome = "resolve"
          THEN [cachedApp EXCEPT !.plays = @ \ {p},
                                 !.isPlaying = TRUE,
                                 !.status = "playing",
                                 !.statusText = "Speaking..."]
          ELSE [cachedApp EXCEPT !.plays = @ \ {p}]
    /\ UNCHANGED <<wavVars, graphVars, appVars, speech, bar>>

\* an element that plays reaches its end: the browser pauses it and fires
\* ended
AudioEndedCached(e) ==
    /\ cachedApp.audios[e].created
    /\ ~cachedApp.audios[e].paused
    /\ \A p \in cachedApp.plays : p.el # e
    /\ cachedApp' = onended([cachedApp EXCEPT !.audios[e].paused = TRUE])
    /\ UNCHANGED <<wavVars, graphVars, appVars, speech, bar>>

InitCached ==
    /\ cachedApp = NoCachedApp
    /\ speech = NoSpeech
    /\ bar = NoBar
    /\ GraphInit
    /\ AppInit
    /\ base64 = <<>>
    /\ sampleRate = <<>>
    /\ wavOut = NoCall

NextCached ==
    \/ HandleClearCached
    \/ HandleFileSelectCached
    \/ PerformSourceAnalysis
    \/ \E l \in LANGUAGES \cup DetectedCodes, host \in Hosts :
          HandleTranslation(l, host)
    \/ \E n \in CallNames, d \in DetectedCodes : TextResolves(n, d)
    \/ \E n \in CallNames, host \in Hosts : SpeechResolves(n, host)
    \/ \E n \in CallNames : RemoteRejectsCached(n)
    \/ \E host \in Hosts : TogglePlaybackCached(host)
    \/ \E p \in cachedApp.plays : PlaySettledCached(p)
    \/ \E e \in Elements : AudioEndedCached(e)

SpecCached == InitCached /\ [][NextCached]_vars

(***************************************************************************)
Field(bytes, offset, size) == SubSeq(bytes, offset + 1, offset + size)

\* the number a little-endian field of at most 4 bytes holds (below 2^31)
LEValue(b) ==
    Digit(b, 1) + 256 * Digit(b, 2) + 65536 * Digit(b, 3) + 16777216 * Digit(b, 4)

\* two digit sequences denote the same number
SameNumber(a, b) == \A i \in 1..Max(Len(a), Len(b)) : Digit(a, i) = Digit(b, i)

\* b is the little-endian encoding of v in Len(b) bytes
IsLittleEndianOf(b, v) == FitsBytes(v, Len(b)) /\ SameNumber(b, v)

ReadWav(bytes) ==
    [sampleRate    |-> Field(bytes, 24, 4),
     channels      |-> LEValue(Field(bytes, 22, 2)),
     bitsPerSample |-> LEValue(Field(bytes, 34, 2)),
     data          |-> SubSeq(bytes, 45, 44 + LEValue(Field(bytes, 40, 4)))]

Returned == wavOut.kind = "blob"

\* the bytes the base64 argument decodes to
DecodedBytes == Atob(base64).codes

(***************************************************************************)
(* C1: for every sample rate and every base64 input that decodes to n     *)
(* bytes, the call returns a blob of exactly 44 + n bytes of type          *)
(* audio/wav; "AAAA" gives 47 bytes.                                       *)
(***************************************************************************)
C1_SizeAndType ==
    (wavOut # NoCall /\ Atob(base64).ok) =>
        /\ Returned
        /\ Len(wavOut.bytes) = 44 + Len(DecodedBytes)
        /\ wavOut.type = "audio/wav"
        /\ (base64 = <<"A", "A", "A", "A">> => Len(wavOut.bytes) = 47)

C1_Witness ==
    /\ Returned
    /\ base64 = <<"A", "A", "A", "A">>
    /\ sampleRate = NatDigits(24000)
    /\ Len(wavOut.bytes) = 47

(***************************************************************************)
(* C2: the header holds "RIFF", "WAVE", "fmt " and "data" as their ASCII   *)
(* bytes in typed order at offsets 0, 8, 12 and 36, and the constant       *)
(* fields little-endian: 16 at 16, 1 at 20, 1 at 22, 2 at 32, 16 at 34,    *)
(* whatever the sample rate and the payload are.                           *)
(***************************************************************************)
C2_ConstantFields ==
    Returned =>
        /\ Field(wavOut.bytes, 0, 4) = <<82, 73, 70, 70>>
        /\ Field(wavOut.bytes, 8, 4) = <<87, 65, 86, 69>>
        /\ Field(wavOut.bytes, 12, 4) = <<102, 109, 116, 32>>
        /\ Field(wavOut.bytes, 36, 4) = <<100, 97, 116, 97>>
        /\ Field(wavOut.bytes, 16, 4) = <<16, 0, 0, 0>>
        /\ Field(wavOut.bytes, 20, 2) = <<1, 0>>
        /\ Field(wavOut.bytes, 22, 2) = <<1, 0>>
        /\ Field(wavOut.bytes, 32, 2) = <<2, 0>>
        /\ Field(wavOut.bytes, 34, 2) = <<16, 0>>

C2_Witness ==
    /\ Returned
    /\ Len(DecodedBytes) = 5
    /\ sampleRate = <<255, 255, 255, 255>>
    /\ Field(wavOut.bytes, 0, 4) = <<82, 73, 70, 70>>

(***************************************************************************)
(* C3: bytes 4..7 hold 36 + n and bytes 40..43 hold n, little-endian, for  *)
(* a payload of n bytes, so ChunkSize = Subchunk2Size + 36.                *)
(***************************************************************************)
C3_SizeFields ==
    Returned =>
        /\ LEValue(Field(wavOut.bytes, 4, 4)) = 36 + Len(DecodedBytes)
        /\ LEValue(Field(wavOut.bytes, 40, 4)) = Len(DecodedBytes)
        /\ LEValue(Field(wavOut.bytes, 4, 4)) = LEValue(Field(wavOut.bytes, 40, 4)) + 36

C3_Witness ==
    /\ Returned
    /\ Len(DecodedBytes) = 4
    /\ Field(wavOut.bytes, 4, 4) = <<40, 0, 0, 0>>
    /\ Field(wavOut.bytes, 40, 4) = <<4, 0, 0, 0>>

(***************************************************************************)
(* C4 as stated: for every integer sample rate r > 0, bytes 24..27 are the *)
(* little-endian 32-bit encoding of r and bytes 28..31 that of r * 2.      *)
(***************************************************************************)
C4_AsStated ==
    Returned =>
        /\ IsLittleEndianOf(Field(wavOut.bytes, 24, 4), sampleRate)
        /\ IsLittleEndianOf(Field(wavOut.bytes, 28, 4), Times2(sampleRate))

(***************************************************************************)
(* C4 as amended: for every integer sample rate 0 < r < 2^31, bytes 24..27 *)
(* are the little-endian 32-bit encoding of r and bytes 28..31 that of     *)
(* r * 2 (24000 and 48000 for r = 24000); for any larger r the two fields  *)
(* hold r and r * 2 modulo 2^32. The rate is the argument's.               *)
(***************************************************************************)
C4_RateFields ==
    Returned =>
        /\ FitsBytes(Times2(sampleRate), 4) =>
              /\ IsLittleEndianOf(Field(wavOut.bytes, 24, 4), sampleRate)
              /\ IsLittleEndianOf(Field(wavOut.bytes, 28, 4), Times2(sampleRate))
        /\ \A i \in 1..4 :
              /\ Field(wavOut.bytes, 24, 4)[i] = Digit(sampleRate, i)
              /\ Field(wavOut.bytes, 28, 4)[i] = Digit(Times2(sampleRate), i)
        /\ sampleRate = NatDigits(24000) =>
              /\ Field(wavOut.bytes, 24, 4) = <<192, 93, 0, 0>>
              /\ Field(wavOut.bytes, 28, 4) = <<128, 187, 0, 0>>

C4_Witness ==
    /\ Returned
    /\ sampleRate = NatDigits(8000)
    /\ Field(wavOut.bytes, 24, 4) = <<64, 31, 0, 0>>
    /\ Field(wavOut.bytes, 28, 4) = <<128, 62, 0, 0>>

(***************************************************************************)
(* C5 as stated: for every payload and sample rate, reading the container  *)
(* as a WAV file yields the decoded PCM bytes unchanged and in order, the  *)
(* same sample rate, 1 channel and 16 bits per sample.                     *)
(***************************************************************************)
C5_AsStated ==
    Returned =>
        /\ ReadWav(wavOut.bytes).data = DecodedBytes
        /\ SameNumber(ReadWav(wavOut.bytes).sampleRate, sampleRate)
        /\ ReadWav(wavOut.bytes).channels = 1
        /\ ReadWav(wavOut.bytes).bitsPerSample = 16

(***************************************************************************)
(* C5 as amended: for every payload, reading the container as a WAV file   *)
(* yields the decoded PCM bytes unchanged and in order, 1 channel and 16   *)
(* bits per sample; the header reports the same sample rate for every      *)
(* sample rate below 2^32.                                                 *)
(***************************************************************************)
C5_RoundTrip ==
    Returned =>
        /\ ReadWav(wavOut.bytes).data = DecodedBytes
        /\ FitsBytes(sampleRate, 4) =>
              SameNumber(ReadWav(wavOut.bytes).sampleRate, sampleRate)
        /\ ReadWav(wavOut.bytes).channels = 1
        /\ ReadWav(wavOut.bytes).bitsPerSample = 16

C5_Witness ==
    /\ Returned
    /\ base64 = <<"/", "/", "/", "/", "A", "/", "/">>
    /\ sampleRate = NatDigits(2147483647)
    /\ ReadWav(wavOut.bytes).data = <<255, 255, 255, 3, 255>>

(***************************************************************************)
(* The audio graph's claims.                                               *)
(***************************************************************************)
\* the sources that have an edge to the analyser or to the destination
LiveSources == {s \in Elements : \E e \in graph.edges : e[1] = s}

\* the last commit ran the effect for an element
Attached == lastOp.op = "attach" /\ lastOp.element # NullRef

(***************************************************************************)
(* C7: attaching a media element that was never attached before creates    *)
(* exactly two edges, source to analyser and source to destination, and    *)
(* records that source as the bound source; no other edge exists.          *)
(***************************************************************************)
C7_FirstAttach ==
    (Attached /\ ~lastOp.wasBound) =>
        /\ graph.edges = {<<lastOp.element, "analyser">>,
                          <<lastOp.element, "destination">>}
        /\ graph.sourceRef = lastOp.element

C7_Witness ==
    /\ Attached
    /\ ~lastOp.wasBound
    /\ \E x \in Elements : x # lastOp.element /\ graph.nodes[x] # 0
    /\ graph.sourceRef = lastOp.element
    /\ Cardinality(graph.edges) = 2

(***************************************************************************)
(* C8: attaching the same media element a second time leaves exactly one   *)
(* connection from that element to the analyser and an edge count of 2.    *)
(***************************************************************************)
C8_AsStated ==
    (Attached /\ lastOp.wasBound) =>
        /\ <<lastOp.element, "analyser">> \in graph.edges
        /\ AnalyserSources(graph.edges) = {lastOp.element}
        /\ Cardinality(graph.edges) = 2

(***************************************************************************)
(* C9: in every reachable state at most one source is connected to the     *)
(* analyser, and within a commit that switches the element the old source  *)
(* is disconnected before the new one is connected, so at no point are two *)
(* sources connected.                                                      *)
(***************************************************************************)
C9_OneAnalyserSource ==
    /\ Cardinality(AnalyserSources(graph.edges)) <= 1
    /\ graph.peak <= 1

C9_Witness ==
    /\ Attached
    /\ lastOp.prev \in Elements
    /\ lastOp.prev # lastOp.element
    /\ ~lastOp.wasBound
    /\ AnalyserSources(graph.edges) = {lastOp.element}
    /\ graph.peak = 1

C11_NoExceptionEscapes == ~graph.escaped

C11_Witness ==
    /\ lastOp.op = "attach"
    /\ lastOp.wasBound
    /\ graph.outcome = "threw"
    /\ ~graph.escaped
    /\ graph.edges = {}

(***************************************************************************)
(* C12: on one mounted Visualizer the processing context and the analysis  *)
(* node are created exactly once, by the first attach of a non-null        *)
(* element, and never again, whatever attach, switch, playback and         *)
(* teardown follow; the FFT size is 256 in every state after creation.     *)
(***************************************************************************)
ContextOncePerInstance ==
    /\ graph.instCtx <= 1
    /\ graph.instCtx = 1 <=> graph.audioCtx # 0
    /\ graph.audioCtx # 0 =>
          graph.analyser = [ctx |-> graph.audioCtx, fftSize |-> 256]
    /\ graph.audioCtx = 0 => graph.analyser = NoAnalyser
    /\ (mounted /\ audioElement # NullRef) => graph.audioCtx # 0

ContextKeptWhileMounted ==
    (mounted /\ mounted') =>
        /\ graph.audioCtx # 0 =>
              /\ graph'.audioCtx = graph.audioCtx
              /\ graph'.analyser = graph.analyser
        /\ (graph.audioCtx = 0 /\ graph'.audioCtx # 0) =>
              (audioElement' # NullRef /\ audioElement' # audioElement)

C12_ContextCreatedOnce ==
    []ContextOncePerInstance /\ [][ContextKeptWhileMounted]_vars

C12_Witness ==
    /\ mounted
    /\ isPlaying
    /\ lastOp.op = "attach"
    /\ lastOp.prev \in Elements
    /\ graph.instCtx = 1
    /\ graph.analyser.fftSize = 256
    /\ anim.frames = 2

(***************************************************************************)
(* C13: exactly one native audio-processing context is created per page    *)
(* session however often the Visualizer is unmounted and mounted again.    *)
(***************************************************************************)
C13_AsStated == graph.ctxCount <= 1

(***************************************************************************)
(* C14: teardown (the bound element changes or is removed) disconnects the *)
(* current source and clears the stored source reference, and leaves the   *)
(* processing context, the analysis node and its FFT size unchanged.       *)
(***************************************************************************)
TeardownStep ==
    (mounted /\ graph.sourceRef # NullRef /\ audioElement' # audioElement) =>
        /\ \A e \in graph'.edges : e[1] # graph.sourceRef
        /\ graph'.sourceRef # graph.sourceRef
        /\ audioElement' = NullRef => graph'.sourceRef = NullRef
        /\ graph'.audioCtx = graph.audioCtx
        /\ graph'.analyser = graph.analyser
        /\ graph'.ctxCount = graph.ctxCount

C14_TeardownFrame == [][TeardownStep]_vars

C14_Witness ==
    /\ mounted
    /\ lastOp.op = "attach"
    /\ lastOp.prev \in Elements
    /\ audioElement = NullRef
    /\ graph.sourceRef = NullRef
    /\ graph.edges = {}
    /\ graph.audioCtx # 0
    /\ graph.analyser.fftSize = 256

(***************************************************************************)
(* C15: while the is-playing flag is false no frame callback is scheduled; *)
(* a change of the flag from true to false cancels the pending callback,   *)
(* so that none is outstanding after the stop and no further frame runs,   *)
(* however the frame ticks interleaved with the stop.                      *)
(***************************************************************************)
C15_NoFrameWhileStopped == ~isPlaying => anim.pending = {}

C15_Witness ==
    /\ mounted
    /\ ~isPlaying
    /\ lastOp.op = "playback"
    /\ anim.frames = 2
    /\ anim.animationRef # 0
    /\ anim.pending = {}

(***************************************************************************)
(* C16: in every reachable state, across play, pause, element switch and   *)
(* unmount, at most one scheduled frame continuation is outstanding.       *)
(***************************************************************************)
C16_OneContinuation == Cardinality(anim.pending) <= 1

C16_Witness ==
    /\ isPlaying
    /\ anim.rafCount >= 3
    /\ anim.frames = 1
    /\ Cardinality(anim.pending) = 1

(***************************************************************************)
(* C17: when playback stops after at least one frame was rendered, the     *)
(* drawing surface is cleared over its full width and height, and the      *)
(* clear stays the last operation on it until playback starts again.       *)
(***************************************************************************)
C17_ClearedAfterStop ==
    (mounted /\ ~isPlaying /\ anim.frames >= 1) =>
        anim.canvas = [op |-> "clear", w |-> 800, h |-> 200]

C17_Witness ==
    /\ mounted
    /\ ~isPlaying
    /\ anim.frames = 2
    /\ anim.canvas.op = "clear"
    /\ anim.canvas.w = CanvasWidth
    /\ anim.canvas.h = CanvasHeight

(***************************************************************************)
(* C18: whenever playback starts while the context is suspended, resume is *)
(* called before the first frame of the render loop; when the context is   *)
(* not suspended, resume is not called.                                    *)
(***************************************************************************)
C18_ResumeBeforeFirstFrame ==
    (mounted /\ isPlaying) =>
        anim.startLog = IF anim.startSuspended
                        THEN <<"resume", "render">>
                        ELSE <<"render">>

C18_Witness ==
    /\ mounted
    /\ isPlaying
    /\ anim.startSuspended
    /\ anim.startLog = <<"resume", "render">>

(***************************************************************************)
(* C19: while the is-playing flag stays true and the analysis node exists, *)
(* each animation tick reads one frame of 128 bins (half the FFT size) and *)
(* schedules exactly one successor, so that another frame is always        *)
(* eventually produced until the flag becomes false.                       *)
(***************************************************************************)
LoopRunning ==
    (mounted /\ isPlaying /\ graph.analyser # NoAnalyser) =>
        /\ Cardinality(anim.pending) = 1
        /\ \A cb \in anim.pending :
              cb.id = anim.animationRef /\ cb.playing /\ cb.bins = 128
        /\ anim.frameLen = 128
        /\ anim.canvas.op = "bars"

\* within the ids of the model, a frame follows the frame that took id n
NextFrameFollows ==
    \A n \in 1..(MaxRafIds - 1) :
        (mounted /\ isPlaying /\ anim.rafCount = n)
            ~> (anim.rafCount > n \/ ~isPlaying)

RejectedPlay ==
    \/ /\ audioElement # NullRef
       /\ audios[audioElement].paused
       /\ TogglePlayback("reject")
    \/ \E p \in plays : p.outcome = "reject" /\ PlaySettled(p)

RejectedPlayIsNoOp ==
    RejectedPlay =>
        /\ isPlaying' => isPlaying
        /\ status' = "playing" => status = "playing"

C20_AsStated == [][RejectedPlayIsNoOp]_vars

(***************************************************************************)
(* C21: pcmToWav does not catch a base64 decode failure: for malformed     *)
(* base64 it returns no blob, the failure propagates to the caller, and in *)
(* processWorkflow the affected result keeps audioBlob = null.             *)
(***************************************************************************)
MalformedData == speech.data # <<>> /\ ~Atob(speech.data).ok

C21_DecodeFailurePropagates ==
    (speech.pc = "done" /\ MalformedData) =>
        /\ speech.wav = Threw
        /\ speech.result = "threw"
        /\ speech.error = DecodeError
        /\ speech.audioBlob = NullRef

C21_Witness ==
    /\ speech.via = "processWorkflow"
    /\ speech.pc = "done"
    /\ speech.data = <<"A", "*", "A", "A">>
    /\ speech.result = "threw"
    /\ speech.audioBlob = NullRef

(***************************************************************************)
(* C23: for every bin magnitude v in 0..255 the red channel emitted for    *)
(* the bar is exactly 100 + v: it ranges over 100..355, is never clamped   *)
(* to 255 and exceeds 255 exactly when v > 155; green and blue are always  *)
(* 92 and 246.                                                             *)
(***************************************************************************)
C23_RedChannel ==
    bar.drawn =>
        /\ bar.fillStyle.r = 100 + bar.v
        /\ bar.fillStyle.r \in 100..355
        /\ bar.fillStyle.r > 255 <=> bar.v > 155
        /\ bar.fillStyle.g = 92
        /\ bar.fillStyle.b = 246

C23_Witness == bar.drawn /\ bar.v = 255 /\ bar.fillStyle.r = 355

(***************************************************************************)
(* C24: every call of withRetry terminates, provided each invocation of    *)
(* the wrapped operation completes: it eventually returns the operation's  *)
(* result or throws, for every pattern of retryable and non-retryable      *)
(* failures.                                                               *)
(***************************************************************************)
C24_WithRetryTerminates ==
    (speech.pc = "calling") ~>
        (speech.pc = "done" /\ speech.result \in {"returned", "threw"})

C24_Witness ==
    /\ speech.pc = "done"
    /\ speech.calls = MAX_RETRIES + 1
    /\ speech.result = "returned"

(***************************************************************************)
(* C25: withRetry invokes the operation at most retries + 1 times (3 with  *)
(* MAX_RETRIES = 2): it stops at the first success and returns that        *)
(* result, stops after one failure that is not retryable by rethrowing     *)
(* that error, and after the last allowed attempt rethrows the last error; *)
(* the wait before the k-th retry is INITIAL_BACKOFF * 2^(k-1).            *)
(***************************************************************************)
RECURSIVE Pow2(_)
Pow2(k) == IF k = 0 THEN 1 ELSE 2 * Pow2(k - 1)

RetryCounts ==
    /\ speech.calls <= MAX_RETRIES + 1
    /\ Len(speech.waits) <= MAX_RETRIES
    /\ \A k \in 1..Len(speech.waits) :
          speech.waits[k] = INITIAL_BACKOFF * Pow2(k - 1)
    /\ speech.pc = "calling" => Len(speech.waits) = speech.calls - 1
    /\ speech.pc = "waiting" => Len(speech.waits) = speech.calls
    /\ (speech.pc = "done" /\ speech.result = "returned") =>
          speech.audioBlob = speech.wav /\ speech.wav.kind = "blob"

RetrySteps ==
    /\ \A data \in PcmBase64s :
          (RemoteResolves(data) /\ Atob(data).ok /\ data # <<>>) =>
              /\ speech'.pc = "done"
              /\ speech'.result = "returned"
              /\ speech'.audioBlob = pcmToWav(data, TtsSampleRate)
              /\ speech'.calls = speech.calls
    /\ \A error \in RemoteErrors :
          RemoteRejects(error) =>
              IF isRetryable(error) /\ speech.calls <= MAX_RETRIES
              THEN /\ speech'.pc = "waiting"
                   /\ speech'.waits =
                         Append(speech.waits,
                                INITIAL_BACKOFF * Pow2(speech.calls - 1))
              ELSE /\ speech'.pc = "done"
                   /\ speech'.result = "threw"
                   /\ speech'.error = error
                   /\ speech'.calls = speech.calls
                   /\ speech'.waits = speech.waits
    /\ TimerFires => speech'.calls = speech.calls + 1

C25_RetryPolicy == []RetryCounts /\ [][RetrySteps]_vars

C25_Witness ==
    /\ speech.pc = "done"
    /\ speech.calls = 3
    /\ speech.waits = <<1000, 2000>>
    /\ speech.result = "threw"
    /\ isRetryable(speech.error)

(***************************************************************************)
(* C26: apiGenerateSpeech called with empty or whitespace-only text fails  *)
(* with 'Cannot generate speech: input text is empty.' before any remote   *)
(* call and without retry or delay; processWorkflow never calls            *)
(* apiGenerateSpeech for a result whose text is empty.                     *)
(***************************************************************************)
BlankText == speech.text = <<>> \/ \A i \in 1..Len(speech.text) : speech.text[i] = " "

C26_EmptyTextFailsFast ==
    (speech.pc # "start" /\ BlankText) =>
        /\ speech.calls = 0
        /\ speech.waits = <<>>
        /\ IF speech.via = "processWorkflow" /\ speech.text = <<>>
           THEN speech.pc = "skipped" /\ speech.result = "none"
           ELSE /\ speech.pc = "done"
                /\ speech.result = "threw"
                /\ speech.error = EmptyTextError

C26_Witness ==
    /\ speech.via = "apiGenerateSpeech"
    /\ speech.text = <<" ", " ">>
    /\ speech.pc = "done"
    /\ speech.error = EmptyTextError
    /\ speech.calls = 0

(***************************************************************************)
(* C22: a workflow reset (handleClear, also run first by handleFileSelect) *)
(* pauses the current audio element and leaves, once its effects have run, *)
(* no audio element, is-playing false, no source connected to the analysis *)
(* node, no frame callback outstanding, an empty results map, no selected  *)
(* language, no error message, status 'idle' and status text 'Idle'.       *)
(***************************************************************************)
ResetStep ==
    (HandleClear \/ HandleFileSelect) =>
        /\ audioElement # NullRef => audios'[audioElement].paused
        /\ audioElement' = NullRef
        /\ ~isPlaying'
        /\ AnalyserSources(graph'.edges) = {}
        /\ graph'.sourceRef = NullRef
        /\ anim'.pending = {}
        /\ resultsMap' = <<>>
        /\ selectedLanguage' = NullRef
        /\ errorMessage' = NullRef
        /\ status' = "idle"
        /\ statusText' = "Idle"

SpeechFailureStep ==
    \A i \in RunNames, host \in Hosts :
        SpeechDone(i, FALSE, host) =>
            LET r == runs[i]
                n == NextSpoken(r.newResults, r.at + 1)
            IN  /\ errorMessage' = errorMessage
                /\ ~r.newResults[r.at].audioBlob
                /\ IF n # 0
                   THEN /\ runs'[i] = [r EXCEPT !.at = n]
                        /\ \A k \in (r.at + 1)..(n - 1) : r.newResults[k].text = ""
                        /\ status' = status
                   ELSE /\ runs'[i].pc = "done"
                        /\ status' = "idle"
                        /\ statusText' = "Ready"

\* the step that ends a run after its speech loop
SpeechLoopEndStep ==
    \A i \in RunNames :
        (runs[i].pc = "speech" /\ runs'[i].pc = "done") =>
            status' = "idle" /\ statusText' = "Ready"

C27_SpeechFailureGoesOn == [][SpeechFailureStep /\ SpeechLoopEndStep]_vars

C27_Witness ==
    \E r \in RunNames :
        /\ runs[r].pc = "speech"
        /\ runs[r].at = 2
        /\ ~runs[r].newResults[1].audioBlob
        /\ runs[r].newResults[1].text # ""
        /\ errorMessage = NullRef
        /\ status = "processing"

(***************************************************************************)
(* C28: every run of processWorkflow leaves the 'processing' status: when  *)
(* the analysis call fails the run ends with status 'idle', status text    *)
(* 'Error', an error message and an empty results map, and when it         *)
(* succeeds the run ends with status 'idle' and status text 'Ready'.       *)
(***************************************************************************)
RunEndStep ==
    \A i \in RunNames :
        /\ AnalysisFailed(i) =>
              /\ status' = "idle"
              /\ statusText' = "Error"
              /\ errorMessage' # NullRef
              /\ resultsMap' = <<>>
        /\ (runs[i].pc = "speech" /\ runs'[i].pc = "done") =>
              /\ status' = "idle"
              /\ statusText' = "Ready"

C28_AsStated == [][RunEndStep]_vars

(***************************************************************************)
(* C29: at most one processWorkflow run is in flight at any time: from the *)
(* moment a run sets status to 'processing' until it finishes, status      *)
(* stays 'processing' and the Analyze button stays disabled, whatever the  *)
(* user does meanwhile (toggling playback, switching the language tab) and *)
(* even if a previously playing audio element ends.                        *)
(***************************************************************************)
RunsInFlight == {r \in RunNames : runs[r].pc \in {"analysis", "speech"}}

StaysProcessing ==
    /\ Cardinality(RunsInFlight) <= 1
    /\ ( /\ RunsInFlight # {}
         /\ status = "processing"
         /\ \/ \E host \in Hosts : TogglePlayback(host)
            \/ \E key \in KeysOf(resultsMap), host \in Hosts :
                  SelectLanguage(key, host)
            \/ \E e \in Elements : AudioEnded(e) )
       => status' = "processing"

C29_AsStated == [][StaysProcessing]_vars

(***************************************************************************)
(* C30: at most one audio element is playing at any time: whenever         *)
(* selectLanguage or togglePlayback creates or starts an audio element,    *)
(* every audio element created earlier is paused.                          *)
(***************************************************************************)
Playing == {e \in Elements : audios[e].created /\ ~audios[e].paused}

C30_AsStated == Cardinality(Playing) <= 1

(***************************************************************************)
(* C31: when processWorkflow finishes and the primary result has audio,    *)
(* the final selectLanguage call requests play on the new audio element,   *)
(* while a tab switch made once the workflow is over and audio has been    *)
(* played does not request play.                                           *)
(***************************************************************************)
PlayRequested(e) == \E p \in plays' : p.el = e

FinalSelectAutoPlays ==
    \A i \in RunNames :
        (runs[i].pc = "speech" /\ runs'[i].pc = "done" /\ audioElement' # NullRef)
            => PlayRequested(audioElement')

LaterSwitchIsSilent ==
    \A key \in KeysOf(resultsMap), host \in Hosts :
        ( /\ SelectLanguage(key, host)
          /\ RunsInFlight = {}
          /\ statusText \in {"Speaking...", "Paused", "Finished"} )
        => \/ audioElement' = NullRef
           \/ /\ audios'[audioElement'].paused
              /\ ~PlayRequested(audioElement')

C31_AsStated == [][FinalSelectAutoPlays /\ LaterSwitchIsSilent]_vars

(***************************************************************************)
(* C32: if handleClear or handleFileSelect runs while processWorkflow is   *)
(* awaiting a remote call, the resumed run does not repopulate the results *)
(* map, select a language or create an audio element for the discarded     *)
(* file: after a reset the results stay empty and no audio element exists  *)
(* until a new run is started.                                             *)
(***************************************************************************)
DiscardedStaysEmpty ==
    (fileData = NullRef /\ resultsMap = <<>> /\ audioElement = NullRef
        /\ selectedLanguage = NullRef)
    => /\ resultsMap' = <<>>
       /\ selectedLanguage' = NullRef
       /\ audioElement' = NullRef

C32_AsStated == [][DiscardedStaysEmpty]_vars

(***************************************************************************)
(* C33: in every reachable state of App the is-playing flag is true        *)
(* exactly when status is 'playing', so the Visualizer renders bars only   *)
(* while the status badge shows playing.                                   *)
(***************************************************************************)
C33_AsStated == isPlaying <=> status = "playing"

(***************************************************************************)
(* C34: after a successful analysis, for every combination of detected     *)
(* language and returned translations, the results map holds the primary   *)
(* content under the primary key with a label ending in '(Source)', and    *)
(* the language selected at the end of the workflow shows that entry.      *)
(***************************************************************************)
IsSourceEntry(item) == item.text = "primaryContent" /\ item.label = "(Source)"

SourceEntryKept ==
    \A i \in RunNames, analysis \in Analyses, host \in Hosts :
        AnalysisDone(i, analysis, host) =>
            /\ primaryKey(analysis) =
                  (IF analysis.detectedLanguage = "unknown" THEN "main"
                   ELSE analysis.detectedLanguage)
            /\ IsSourceEntry(Item(resultsMap', primaryKey(analysis)))

C34_AsStated == [][SourceEntryKept]_vars

(***************************************************************************)
(* C35: in the cached-translation App, for one image each target language  *)
(* is translated and synthesized at most once: after handleTranslation has *)
(* succeeded for a language every later selection of it plays the cached   *)
(* audio and makes no remote call, selecting the detected source language  *)
(* never makes a remote call, and handleClear empties the cache.           *)
(***************************************************************************)
\* the translations of a language obtained from apiTranslate: those waiting
\* for their audio and the one in the cache
Translated(l) ==
    Cardinality({n \in CallNames :
                    /\ cachedApp.calls[n].pc = "translatedSpeech"
                    /\ cachedApp.calls[n].lang = l})
    + (IF l \in cachedApp.cache.translations THEN 1 ELSE 0)

TranslatedOnce == \A l \in LANGUAGES : Translated(l) <= 1

PlaysNewElement ==
    /\ cachedApp'.audioElement \in FreshElements(cachedApp)
    /\ \E p \in cachedApp'.plays : p.el = cachedApp'.audioElement

CachedSelection ==
    \A l \in LANGUAGES \cup DetectedCodes, host \in Hosts :
        ( /\ HandleTranslation(l, host)
          /\ l \in cachedApp.cache.translations \cup {cachedApp.cache.source} )
        => /\ cachedApp'.calls = cachedApp.calls
           /\ cachedApp'.status = cachedApp.status
           /\ PlaysNewElement

ClearEmptiesCache ==
    (HandleClearCached \/ HandleFileSelectCached) =>
        cachedApp'.cache = EmptyCache

C35_AsStated == []TranslatedOnce /\ [][CachedSelection /\ ClearEmptiesCache]_vars

(***************************************************************************)
(* C36: in the cached-translation App getDisplayData returns the           *)
(* 'Translating to ...' placeholder with text '...' only while a           *)
(* translation is waiting or in progress (status 'processing'); once       *)
(* handleTranslation has finished, by success or by failure, the displayed *)
(* entry is the source text or a cached translation.                       *)
(***************************************************************************)
IsPlaceholder(c) ==
    c.cache.source # NullRef /\ getDisplayData(c).text = "..."

TranslationPending ==
    \E n \in CallNames :
        /\ cachedApp.calls[n].pc \in {"apiTranslate", "translatedSpeech"}
        /\ cachedApp.calls[n].lang = cachedApp.targetLangCode

C36_AsStated ==
    IsPlaceholder(cachedApp) =>
        cachedApp.status = "processing" /\ TranslationPending

====
